---- MODULE Spec2Model ----
(***************************************************************************)
(* A model of dvc/command/repro.py: the `dvc repro` command.               *)
(*                                                                         *)
(* CmdRepro.run takes the repository's inter-process lock, checks that     *)
(* the repository is ready, resolves the command-line targets and calls    *)
(* repro_data_items, which builds a ReproChange node per target and calls  *)
(* its reproduce(); reproduce() recurses depth-first over the input files  *)
(* recorded in the target's state file, then decides whether to remove the *)
(* data file and re-run its command.                                       *)
(*                                                                         *)
(* Each invocation of run() is a process; its recursion is an explicit     *)
(* stack of frames, one per active reproduce() call.                       *)
(***************************************************************************)
EXTENDS Integers, Sequences, FiniteSets, TLC

(***************************************************************************)
(* Bounds of the model.                                                    *)
(***************************************************************************)
\* Longest command-line target list an invocation is given.
MaxTargets == 2
\* Deepest reproduce() recursion that is followed (a cyclic declaration of
\* input files recurses without end; the model stops following it here).
MaxDepth == 4
\* Longest target list when reproduce(force) is called with force = True.
MaxForcedTargets == 1

\* The invocations of run(): two commands started against one repository.
Procs == {1, 2}

\* lock.acquire(timeout=5)
LockTimeout == 5

\* The data files of the repository that have a state file.
Artifacts == {"A", "B", "C"}
\* A path outside the data directory: resolving it raises NotInDataDirError.
Outside == "X"
\* A path whose resolution raises some other exception.
Broken == "Z"
Paths == Artifacts \cup {Outside, Broken}

NoProc == 0

(***************************************************************************)
(* State files.  A record is what StateFile.load returns: the input files  *)
(* (in declared order), the reproducibility flag, the number of tokens of  *)
(* norm_argv (0 stands for an absent or empty argv, 2 for two or more) and *)
(* the code dependencies.                                                  *)
(***************************************************************************)
CodeFile(a) == a \o ".py"

Rec(a, deps, repro, argc) ==
    [input_files |-> deps, is_reproducible |-> repro, norm_argv |-> argc,
     code_dependencies |-> {CodeFile(a)}]

\* A repository whose artifacts are all reproducible with a well-formed
\* command, and whose input files are declared by `deps`.
Repo(deps) == [a \in Artifacts |-> Rec(a, deps[a], TRUE, 2)]

Chain   == [a \in Artifacts |-> IF a = "A" THEN <<"B">>
                                 ELSE IF a = "B" THEN <<"C">> ELSE <<>>]
Fan     == [a \in Artifacts |-> IF a = "A" THEN <<"C", "B">> ELSE <<>>]
Diamond == [a \in Artifacts |-> IF a = "A" THEN <<"B", "C">>
                                 ELSE IF a = "B" THEN <<"C">> ELSE <<>>]
ExtDep  == [a \in Artifacts |-> IF a = "A" THEN <<"B", Outside>>
                                 ELSE IF a = "B" THEN <<Broken>> ELSE <<>>]
Cycle   == [a \in Artifacts |-> IF a = "A" THEN <<"B">>
                                 ELSE IF a = "B" THEN <<"A">> ELSE <<>>]
ExtLeaf == [a \in Artifacts |-> IF a = "A" THEN <<"C", "B">>
                                 ELSE IF a = "B" THEN <<Outside>> ELSE <<>>]

Graphs == {Chain, Fan, Diamond, ExtDep, Cycle, ExtLeaf}

\* The chain with one artifact marked not reproducible.
WithLeaf(a) == [Repo(Chain) EXCEPT ![a].is_reproducible = FALSE]
\* The chain with one artifact whose norm_argv has n < 2 tokens.
WithShortArgv(a, n) == [Repo(Chain) EXCEPT ![a].norm_argv = n]

\* The same, the artifact being marked not reproducible as well.
LeafWithShortArgv(a, n) == [WithLeaf(a) EXCEPT ![a].norm_argv = n]

Repos == {Repo(g) : g \in Graphs}
         \cup {WithLeaf(a) : a \in Artifacts}
         \cup {WithShortArgv(a, n) : a \in Artifacts, n \in {0, 1}}
         \cup {LeafWithShortArgv(a, n) : a \in Artifacts, n \in {0, 1}}

\* The arguments of an invocation: the target list and the flag that
\* set_skip_git_actions adds.
SeqsUpTo(S, n) == UNION {[1..k -> S] : k \in 0..n}
Args == [target : SeqsUpTo(Paths, MaxTargets), skip_git_actions : BOOLEAN]

\* What is started: either one command, with any arguments, or two
\* commands at once, the first with one target at most and the second with
\* none.  A command that is not started stays "off".
NoTargets == [target |-> <<>>, skip_git_actions |-> FALSE]
Started(a, second) ==
    /\ a[1] \in Args
    /\ a[2] = NoTargets
    /\ second \in {"off", "acquire"}
    /\ second = "acquire" => a[1].target \in SeqsUpTo(Paths, 1)

VARIABLES
    lock,        \* the holder of git.lock_file, or NoProc
    state,       \* the state files: Artifacts -> record
    exists,      \* the data files present in the working tree
    srcChanged,  \* what git.were_files_changed answers for each artifact:
                 \* "yes", "no", or "unasked" (not asked since the data file
                 \* was last written; the answer is fixed when first asked)
    pc,          \* where each invocation is
    args,        \* each invocation's arguments: target list, skip_git_actions
    waited,      \* time units each invocation has spent in lock.acquire
    items,       \* data_item_list
    idx,         \* position of the for loop of repro_data_items
    changed,     \* repro_data_items: changed
    error,       \* repro_data_items: error
    stack,       \* active reproduce() calls, innermost last
    ret,         \* value a reproduce() call is returning
    result,      \* what run() does: "none" yet, return "0" or "1", or "raised"
    code,        \* cmd_obj._code
    external,    \* external_files_names, once reported by Logger.error
    warned,      \* whether not_committed_changes_warning() was called
    log,         \* per invocation, the operations performed, in order
    force_arg    \* the force argument of the top-level reproduce() calls

vars == <<lock, state, exists, srcChanged, pc, args, waited, items, idx,
          changed, error, stack, ret, result, code, external, warned, log,
          force_arg>>

repoVars == <<state, exists, srcChanged, force_arg>>

\* repro_data_items calls reproduce() with no argument, so force is False;
\* InitForce is for a caller that passes either value of force to the
\* reproduce(force) of at most MaxForcedTargets targets.
InitWith(forces) ==
    /\ force_arg \in forces
    /\ lock = NoProc
    /\ state \in Repos
    /\ exists = Artifacts
    /\ srcChanged = [a \in Artifacts |-> "unasked"]
    /\ args \in [Procs -> Args \cup {NoTargets}]
    /\ pc \in [Procs -> {"off", "acquire"}]
    /\ pc[1] = "acquire"
    /\ Started(args, pc[2])
    /\ waited = [p \in Procs |-> 0]
    /\ items = [p \in Procs |-> <<>>]
    /\ idx = [p \in Procs |-> 1]
    /\ changed = [p \in Procs |-> FALSE]
    /\ error = [p \in Procs |-> FALSE]
    /\ stack = [p \in Procs |-> <<>>]
    /\ ret = [p \in Procs |-> FALSE]
    /\ result = [p \in Procs |-> "none"]
    /\ code = [p \in Procs |-> {}]
    /\ external = [p \in Procs |-> <<>>]
    /\ warned = [p \in Procs |-> FALSE]
    /\ log = [p \in Procs |-> <<>>]

Init == InitWith({FALSE})

InitForce ==
    /\ InitWith(BOOLEAN)
    /\ force_arg => Len(args[1].target) <= MaxForcedTargets

\* An entry of the log: the operation, the path it is about, its outcome.
Logged(p, op, a, r) == log' = [log EXCEPT ![p] = Append(@, <<op, a, r>>)]

(***************************************************************************)
(* CmdRepro.run: the lock.                                                 *)
(***************************************************************************)
\* A lock that is granted whoever holds it.
CanAcquireHeld(p) == TRUE

\* InterProcessLock.acquire succeeds only on a lock nobody holds.
CanAcquire(p) == lock = NoProc

\* lock.acquire(timeout=5) returns True.
Acquire(p) ==
    /\ pc[p] = "acquire"
    /\ CanAcquire(p)
    /\ lock' = p
    /\ pc' = [pc EXCEPT ![p] = "check"]
    /\ Logged(p, "acquire", "", "")
    /\ UNCHANGED <<repoVars, args, waited, items, idx, changed, error, stack,
                   ret, result, code, external, warned>>

\* lock.acquire keeps retrying while the lock is held and time remains.
WaitLock(p) ==
    /\ pc[p] = "acquire"
    /\ ~CanAcquire(p)
    /\ waited[p] < LockTimeout
    /\ waited' = [waited EXCEPT ![p] = @ + 1]
    /\ UNCHANGED <<lock, repoVars, pc, args, items, idx, changed, error,
                   stack, ret, result, code, external, warned, log>>

\* A run() that goes on although lock.acquire returned False.
LockBusyIgnored(p) ==
    /\ pc[p] = "acquire"
    /\ ~CanAcquire(p)
    /\ waited[p] = LockTimeout
    /\ pc' = [pc EXCEPT ![p] = "check"]
    /\ UNCHANGED <<lock, repoVars, args, waited, items, idx, changed, error,
                   stack, ret, result, code, external, warned, log>>

\* lock.acquire(timeout=5) returns False: "DVC is busy and locked", return 1.
LockBusy(p) ==
    /\ pc[p] = "acquire"
    /\ ~CanAcquire(p)
    /\ waited[p] = LockTimeout
    /\ result' = [result EXCEPT ![p] = "1"]
    /\ pc' = [pc EXCEPT ![p] = "done"]
    /\ UNCHANGED <<lock, repoVars, args, waited, items, idx, changed, error,
                   stack, ret, code, external, warned, log>>

\* A try block without its finally clause: the lock is never released.
LeaveTryNoFinally(p, v) ==
    /\ result' = [result EXCEPT ![p] = v]
    /\ pc' = [pc EXCEPT ![p] = "done"]
    /\ stack' = [stack EXCEPT ![p] = <<>>]

\* Leaving the try block: `return v` (or an exception other than ReproError
\* passing through) runs the finally clause next.
LeaveTry(p, v) ==
    /\ result' = [result EXCEPT ![p] = v]
    /\ pc' = [pc EXCEPT ![p] = "finally"]
    /\ stack' = [stack EXCEPT ![p] = <<>>]

\* A run() that goes on with a repository that is not ready.
CheckReadyIgnored(p) ==
    /\ pc[p] = "check"
    /\ IF args[p].skip_git_actions
       THEN UNCHANGED log
       ELSE \E ready \in {"yes", "no"} : Logged(p, "ready", "", ready)
    /\ pc' = [pc EXCEPT ![p] = "resolve"]
    /\ UNCHANGED <<lock, repoVars, args, waited, items, idx, changed, error,
                   ret, code, external, warned, result, stack>>

\* if not self.skip_git_actions and not self.git.is_ready_to_go(): return 1
CheckReady(p) ==
    /\ pc[p] = "check"
    /\ IF args[p].skip_git_actions
       THEN /\ pc' = [pc EXCEPT ![p] = "resolve"]
            /\ UNCHANGED <<result, stack, log>>
       ELSE \E ready \in {"yes", "no"} :
               /\ Logged(p, "ready", "", ready)
               /\ IF ready = "yes"
                  THEN /\ pc' = [pc EXCEPT ![p] = "resolve"]
                       /\ UNCHANGED <<result, stack>>
                  ELSE LeaveTry(p, "1")
    /\ UNCHANGED <<lock, repoVars, args, waited, items, idx, changed, error,
                   ret, code, external, warned>>

\* path_factory.to_data_items: the targets inside the data directory become
\* data items, the names of the others are collected.
to_data_items(targets) ==
    [data_item_list |-> SelectSeq(targets, LAMBDA t : t \in Artifacts),
     external_files_names |-> SelectSeq(targets, LAMBDA t : t = Outside)]

\* A target whose resolution fails otherwise makes to_data_items raise.
ResolutionRaises(targets) == \E k \in 1..Len(targets) : targets[k] = Broken

\* A resolution that reports the external files and goes on without them.
ResolveWithoutReturn(p) ==
    /\ pc[p] = "resolve"
    /\ Logged(p, "resolve", "", "")
    /\ LET r == to_data_items(args[p].target) IN
          /\ external' = [external EXCEPT ![p] = r.external_files_names]
          /\ items' = [items EXCEPT ![p] = r.data_item_list]
          /\ pc' = [pc EXCEPT ![p] = "loop"]
    /\ UNCHANGED <<lock, repoVars, args, waited, idx, changed, error, ret,
                   code, warned, result, stack>>

\* Lines 60-64: resolve the targets; external files are reported, return 1.
Resolve(p) ==
    /\ pc[p] = "resolve"
    /\ Logged(p, "resolve", "", "")
    /\ LET r == to_data_items(args[p].target) IN
          IF ResolutionRaises(args[p].target)
          THEN /\ LeaveTry(p, "raised")
               /\ UNCHANGED <<items, external>>
          ELSE IF r.external_files_names # <<>>
          THEN /\ external' = [external EXCEPT ![p] = r.external_files_names]
               /\ LeaveTry(p, "1")
               /\ UNCHANGED items
          ELSE /\ items' = [items EXCEPT ![p] = r.data_item_list]
               /\ pc' = [pc EXCEPT ![p] = "loop"]
               /\ UNCHANGED <<external, result, stack>>
    /\ UNCHANGED <<lock, repoVars, args, waited, idx, changed, error, ret,
                   code, warned>>

\* finally: lock.release(); then run() returns (or the exception goes on).
Release(p) ==
    /\ pc[p] = "finally"
    /\ lock' = NoProc
    /\ pc' = [pc EXCEPT ![p] = "done"]
    /\ Logged(p, "release", "", "")
    /\ UNCHANGED <<repoVars, args, waited, items, idx, changed, error, stack,
                   ret, result, code, external, warned>>

(***************************************************************************)
(* ReproChange: a node and its reproduce().                                *)
(***************************************************************************)
Top(p) == stack[p][Len(stack[p])]

SetTop(p, f) == stack' = [stack EXCEPT ![p] = [@ EXCEPT ![Len(@)] = f]]

\* A frame of reproduce(force) on data item a.  i is the position of the
\* loop over get_dependencies(); the other fields are the locals
\* were_input_files_changed and was_source_code_changed, and whether
\* os.remove and run_command were called.
Frame(a, force) ==
    [item |-> a, force |-> force, i |-> 1,
     were_input_files_changed |-> FALSE, was_source_code_changed |-> FALSE,
     removed |-> FALSE, executed |-> FALSE]

\* A check of argv that lets a single token pass.
ArgvErrorOnlyEmpty(a) == state[a].norm_argv = 0

\* ReproChange.__init__ raises ReproError on an argv that is absent, empty
\* or shorter than two tokens.
ArgvError(a) == state[a].norm_argv < 2

\* An except clause without its break: the loop goes on.
RaiseReproErrorNoBreak(p) ==
    /\ error' = [error EXCEPT ![p] = TRUE]
    /\ stack' = [stack EXCEPT ![p] = <<>>]
    /\ pc' = [pc EXCEPT ![p] = "loop"]

\* A ReproError raised under repro_data_items' try: it unwinds every
\* reproduce() frame; the except clause sets error and breaks the loop.
RaiseReproError(p) ==
    /\ error' = [error EXCEPT ![p] = TRUE]
    /\ stack' = [stack EXCEPT ![p] = <<>>]
    /\ pc' = [pc EXCEPT ![p] = "after_loop"]

\* ReproChange(data_item, cmd_obj): load the state file, overwrite
\* cmd_obj._code, check argv; then reproduce(force) is called on the node.
Construct(p, a, force, as) ==
    /\ Logged(p, "load", a, as)
    /\ code' = [code EXCEPT ![p] = state[a].code_dependencies]
    /\ IF ArgvError(a)
       THEN RaiseReproError(p)
       ELSE /\ stack' = [stack EXCEPT ![p] = Append(@, Frame(a, force))]
            /\ pc' = [pc EXCEPT ![p] = "reproduce"]
            /\ UNCHANGED error

\* The for loop of repro_data_items takes the next data item.
ConstructTarget(p) ==
    /\ pc[p] = "loop"
    /\ idx[p] <= Len(items[p])
    /\ Construct(p, items[p][idx[p]], force_arg, "target")
    /\ UNCHANGED <<lock, repoVars, args, waited, items, idx, changed, ret,
                   result, external, warned>>

\* The for loop of repro_data_items is exhausted.
LoopDone(p) ==
    /\ pc[p] = "loop"
    /\ idx[p] > Len(items[p])
    /\ pc' = [pc EXCEPT ![p] = "after_loop"]
    /\ UNCHANGED <<lock, repoVars, args, waited, items, idx, changed, error,
                   stack, ret, result, code, external, warned, log>>

\* A resolution that looks at the first input file only.
FirstDependencyResolves(a) ==
    state[a].input_files = <<>> \/ state[a].input_files[1] \in Artifacts

\* get_dependencies: every input file must resolve to a data item;
\* NotInDataDirError and any other exception become a ReproError.
DependenciesResolve(a) ==
    \A k \in 1..Len(state[a].input_files) : state[a].input_files[k] \in Artifacts

get_dependencies(a) == state[a].input_files

\* A check of the flag that takes every data file for reproducible.
AlwaysReproducible(a) == TRUE

\* A check of the flag that lets a data file be reproduced once in a run:
\* reproduce() returns False on a data file it has returned from before.
ReproducibleOnce(a) ==
    /\ state[a].is_reproducible
    /\ \A p \in Procs : \A k \in 1..Len(log[p]) :
          ~(log[p][k][1] = "return" /\ log[p][k][2] = a)

\* self._state.is_reproducible
IsReproducible(a) == state[a].is_reproducible

\* A reproduce() that returns False on a data file whose reproduce() is
\* active already: a guard against cyclic input files.
ReproduceUnlessActive(p) ==
    /\ pc[p] = "reproduce"
    /\ LET f == Top(p) IN
          IF \/ ~IsReproducible(f.item)
             \/ \E j \in 1..(Len(stack[p]) - 1) : stack[p][j].item = f.item
          THEN /\ ret' = [ret EXCEPT ![p] = FALSE]
               /\ pc' = [pc EXCEPT ![p] = "return"]
               /\ UNCHANGED <<stack, error>>
          ELSE IF ~DependenciesResolve(f.item)
          THEN /\ RaiseReproError(p)
               /\ UNCHANGED ret
          ELSE /\ pc' = [pc EXCEPT ![p] = "children"]
               /\ UNCHANGED <<stack, error, ret>>
    /\ UNCHANGED <<lock, repoVars, args, waited, items, idx, changed, result,
                   code, external, warned, log>>

\* reproduce(), lines 135-143: a node that is not reproducible returns
\* False; otherwise its dependencies are resolved.
Reproduce(p) ==
    /\ pc[p] = "reproduce"
    /\ LET f == Top(p) IN
          IF ~IsReproducible(f.item)
          THEN /\ ret' = [ret EXCEPT ![p] = FALSE]
               /\ pc' = [pc EXCEPT ![p] = "return"]
               /\ UNCHANGED <<stack, error>>
          ELSE IF ~DependenciesResolve(f.item)
          THEN /\ RaiseReproError(p)
               /\ UNCHANGED ret
          ELSE /\ pc' = [pc EXCEPT ![p] = "children"]
               /\ UNCHANGED <<stack, error, ret>>
    /\ UNCHANGED <<lock, repoVars, args, waited, items, idx, changed, result,
                   code, external, warned, log>>

\* Lines 145-146: the loop over the dependencies constructs the next child.
ConstructChild(p) ==
    /\ pc[p] = "children"
    /\ Top(p).i <= Len(get_dependencies(Top(p).item))
    /\ Len(stack[p]) < MaxDepth
    /\ Construct(p, get_dependencies(Top(p).item)[Top(p).i], Top(p).force, "dep")
    /\ UNCHANGED <<lock, repoVars, args, waited, items, idx, changed, ret,
                   result, external, warned>>

\* A loop over the dependencies that stops at the first changed one.
ChildrenDoneOnChange(p) ==
    /\ pc[p] = "children"
    /\ \/ Top(p).i > Len(get_dependencies(Top(p).item))
       \/ Top(p).were_input_files_changed
    /\ pc' = [pc EXCEPT ![p] = "detect"]
    /\ UNCHANGED <<lock, repoVars, args, waited, items, idx, changed, error,
                   stack, ret, result, code, external, warned, log>>

\* A reproduce() that asks git before its dependencies are through.
ChildrenDoneEarly(p) ==
    /\ pc[p] = "children"
    /\ pc' = [pc EXCEPT ![p] = "detect"]
    /\ UNCHANGED <<lock, repoVars, args, waited, items, idx, changed, error,
                   stack, ret, result, code, external, warned, log>>

\* The loop over the dependencies is exhausted.
ChildrenDone(p) ==
    /\ pc[p] = "children"
    /\ Top(p).i > Len(get_dependencies(Top(p).item))
    /\ pc' = [pc EXCEPT ![p] = "detect"]
    /\ UNCHANGED <<lock, repoVars, args, waited, items, idx, changed, error,
                   stack, ret, result, code, external, warned, log>>

\* A decision that forgets the changed inputs.
StaleIgnoringInputs(force, source, inputs) == force \/ source

\* Line 153: the node is regenerated unless none of the three holds.
Stale(force, source, inputs) == force \/ source \/ inputs

\* The answers git.were_files_changed may give for data file a.
Answers(a) == IF srcChanged[a] = "unasked" THEN {"yes", "no"}
                                            ELSE {srcChanged[a]}

\* Lines 150-156: ask git whether the data file or its code changed, and
\* return False when the data file is up to date.
Detect(p) ==
    /\ pc[p] = "detect"
    /\ \E ans \in Answers(Top(p).item) :
        LET f == Top(p)
            g == [f EXCEPT !.was_source_code_changed = (ans = "yes")]
        IN /\ srcChanged' = [srcChanged EXCEPT ![f.item] = ans]
           /\ SetTop(p, g)
           /\ Logged(p, "detect", f.item, ans)
           /\ IF Stale(g.force, g.was_source_code_changed,
                       g.were_input_files_changed)
              THEN /\ pc' = [pc EXCEPT ![p] = "remove"]
                   /\ UNCHANGED ret
              ELSE /\ pc' = [pc EXCEPT ![p] = "return"]
                   /\ ret' = [ret EXCEPT ![p] = FALSE]
    /\ UNCHANGED <<lock, state, exists, force_arg, args, waited, items, idx,
                   changed, error, result, code, external, warned>>

\* reproduce_data_file, line 127: os.remove deletes the data file, and
\* raises OSError (not a ReproError) when there is no such file.
Remove(p) ==
    /\ pc[p] = "remove"
    /\ LET f == Top(p) IN
          IF f.item \in exists
          THEN /\ exists' = exists \ {f.item}
               /\ SetTop(p, [f EXCEPT !.removed = TRUE])
               /\ Logged(p, "remove", f.item, "")
               /\ pc' = [pc EXCEPT ![p] = "exec"]
               /\ UNCHANGED result
          ELSE /\ LeaveTry(p, "raised")
               /\ UNCHANGED <<exists, log>>
    /\ UNCHANGED <<lock, state, srcChanged, force_arg, args, waited, items,
                   idx, changed, error, ret, code, external, warned>>

\* What run_command may do: run the command with success (True), report a
\* failed command (False), or raise.
ExecOutcomes == {"ok", "failed", "raised"}

\* reproduce_data_file, lines 132-133: run_command re-runs the command and
\* its result is what reproduce() returns.  A command that succeeds writes
\* its output; what git says of the data file afterwards is open again.
Exec(p) ==
    /\ pc[p] = "exec"
    /\ \E out \in ExecOutcomes :
          /\ Logged(p, "exec", Top(p).item, out)
          /\ IF out = "raised"
             THEN /\ LeaveTry(p, "raised")
                  /\ UNCHANGED <<exists, srcChanged, ret>>
             ELSE /\ SetTop(p, [Top(p) EXCEPT !.executed = TRUE])
                  /\ ret' = [ret EXCEPT ![p] = (out = "ok")]
                  /\ pc' = [pc EXCEPT ![p] = "return"]
                  /\ exists' = IF out = "ok" THEN exists \cup {Top(p).item}
                                             ELSE exists
                  /\ srcChanged' =
                        [srcChanged EXCEPT ![Top(p).item] = "unasked"]
                  /\ UNCHANGED result
    /\ UNCHANGED <<lock, state, force_arg, args, waited, items, idx, changed,
                   error, code, external, warned>>

\* reproduce() returns ret to its caller: to the loop of the parent's
\* reproduce() (lines 147-148) or to repro_data_items (lines 80-88).
Return(p) ==
    /\ pc[p] = "return"
    /\ Logged(p, "return", Top(p).item, IF ret[p] THEN "True" ELSE "False")
    /\ LET rest == SubSeq(stack[p], 1, Len(stack[p]) - 1) IN
          IF rest = <<>>
          THEN /\ stack' = [stack EXCEPT ![p] = <<>>]
               /\ changed' = [changed EXCEPT ![p] = @ \/ ret[p]]
               /\ idx' = [idx EXCEPT ![p] = @ + 1]
               /\ pc' = [pc EXCEPT ![p] = "loop"]
          ELSE /\ stack' = [stack EXCEPT ![p] =
                    [rest EXCEPT ![Len(rest)] =
                        [@ EXCEPT !.i = @ + 1,
                                  !.were_input_files_changed = @ \/ ret[p]]]]
               /\ pc' = [pc EXCEPT ![p] = "children"]
               /\ UNCHANGED <<changed, idx>>
    /\ UNCHANGED <<lock, repoVars, args, waited, items, error, ret, result,
                   code, external, warned>>

(***************************************************************************)
(* The end of repro_data_items and of run.                                 *)
(***************************************************************************)
\* A result of repro_data_items that forgets the error.
ReproducedDespiteError(c, e) == c

\* Line 100: return changed and not error
Reproduced(c, e) == c /\ ~e

\* Lines 96-100 and 66-67: warn about uncommitted changes, return
\* `changed and not error`; run() commits on True and returns 1 otherwise.
AfterLoop(p) ==
    /\ pc[p] = "after_loop"
    /\ warned' = [warned EXCEPT ![p] = error[p] /\ ~args[p].skip_git_actions]
    /\ IF Reproduced(changed[p], error[p])
       THEN /\ pc' = [pc EXCEPT ![p] = "commit"]
            /\ UNCHANGED <<result, stack>>
       ELSE LeaveTry(p, "1")
    /\ UNCHANGED <<lock, repoVars, args, waited, items, idx, changed, error,
                   ret, code, external, log>>

\* What commit_if_needed may do: return 0, return a failure, or raise.
CommitOutcomes == {"0", "1", "raised"}

\* Line 67: return self.commit_if_needed(...).
Commit(p) ==
    /\ pc[p] = "commit"
    /\ \E out \in CommitOutcomes :
          /\ Logged(p, "commit", "", out)
          /\ LeaveTry(p, out)
    /\ UNCHANGED <<lock, repoVars, args, waited, items, idx, changed, error,
                   ret, code, external, warned>>

\* A step of invocation p.
Run(p) ==
    \/ Acquire(p) \/ WaitLock(p) \/ LockBusy(p)
    \/ CheckReady(p) \/ Resolve(p)
    \/ ConstructTarget(p) \/ LoopDone(p)
    \/ Reproduce(p) \/ ConstructChild(p) \/ ChildrenDone(p)
    \/ Detect(p) \/ Remove(p) \/ Exec(p) \/ Return(p)
    \/ AfterLoop(p) \/ Commit(p) \/ Release(p)

Next == \E p \in Procs : Run(p)

Spec == Init /\ [][Next]_vars

\* Each invocation is a sequential process of its own that keeps running:
\* a step it can take is taken in the end.  run_command and
\* commit_if_needed are taken to return, they are single steps here.
SpecLive == Spec /\ \A p \in Procs : WF_vars(Run(p))

\* The same program when reproduce(force) is called with either value.
SpecForce == InitForce /\ [][Next]_vars

(***************************************************************************)
(* What the log and the control state say of a run.                        *)
(***************************************************************************)
Ops(p, op) == {k \in 1..Len(log[p]) : log[p][k][1] = op}
Count(p, op) == Cardinality(Ops(p, op))
Did(p, op) == Ops(p, op) # {}

\* The run is between a successful lock.acquire and its lock.release.
Holding(p) == pc[p] \notin {"off", "acquire", "done"}

\* The operations that are the work of a run.
WorkOps == {"ready", "resolve", "load", "detect", "remove", "exec", "commit"}

Finished(p) == pc[p] = "done"

\* The run gave up on a busy lock.
Refused(p) == Finished(p) /\ ~Did(p, "acquire")

(***************************************************************************)
(* C1. Two concurrent runs never hold the repository lock together: the    *)
(* second run acquires it only once the first has released it, having      *)
(* waited at most LockTimeout units, or returns 1 (lock busy) after        *)
(* LockTimeout units without ever holding it.                              *)
(***************************************************************************)
C1_LockExclusive ==
    /\ \A p, q \in Procs : p # q => ~(Holding(p) /\ Holding(q))
    /\ \A p \in Procs :
          /\ waited[p] <= LockTimeout
          /\ Holding(p) => lock = p
          /\ Refused(p) => /\ result[p] = "1"
                           /\ waited[p] = LockTimeout
                           /\ log[p] = <<>>

\* A run holds the lock after waiting for the other run, which has released.
C1_Witness ==
    \E p, q \in Procs :
        p # q /\ Holding(q) /\ waited[q] > 0 /\ Did(p, "release")

(***************************************************************************)
(* C2. A run that acquired the lock releases it exactly once, at the very  *)
(* end of run() and on every way out of it (not ready, external target,    *)
(* after the commit, nothing changed or error, an exception from           *)
(* resolution, reproduction or commit); a finished run does not hold the   *)
(* lock.                                                                   *)
(***************************************************************************)
C2_ReleasedOnce ==
    \A p \in Procs :
        /\ Count(p, "acquire") <= 1
        /\ Count(p, "release") <= Count(p, "acquire")
        /\ Holding(p) => Count(p, "release") = 0
        /\ Finished(p) => /\ Count(p, "release") = Count(p, "acquire")
                          /\ lock # p
                          /\ result[p] # "none"
        /\ ~Finished(p) /\ pc[p] # "finally" => result[p] = "none"

\* A run ended by an exception out of run_command has released the lock.
C2_Witness ==
    \E p \in Procs :
        /\ Finished(p) /\ result[p] = "raised"
        /\ Count(p, "release") = 1
        /\ log[p][Len(log[p]) - 1] [1] = "exec"

(***************************************************************************)
(* C3. Every operation of a run (readiness check, target resolution, state *)
(* load, change detection, removal, command execution, commit) is done     *)
(* while the run holds the lock, which it acquires once for all its        *)
(* targets; a run refused the lock does none of them and returns 1.        *)
(***************************************************************************)
C3_WorkUnderLock ==
    /\ [](\A p \in Procs :
            /\ Count(p, "acquire") <= 1
            /\ Refused(p) => log[p] = <<>> /\ result[p] = "1")
    /\ [][\A p \in Procs :
            (log'[p] # log[p] /\ log'[p][Len(log'[p])][1] \in WorkOps)
               => (lock = p /\ lock' = p)]_vars

\* The command of the second target's tree is run under the first target's
\* acquisition of the lock.
C3_Witness ==
    \E p \in Procs :
        /\ lock = p /\ Count(p, "acquire") = 1
        /\ idx[p] = 2 /\ pc[p] = "exec" /\ Did(p, "exec")

\* The last entry of the log that is not the release of the lock.
LastWork(p) ==
    LET L == SelectSeq(log[p], LAMBDA e : e[1] # "release")
    IN IF L = <<>> THEN <<"", "", "">> ELSE L[Len(L)]

\* os.remove raised: the run ended by an exception right after a detect.
RemoveRaised(p) == result[p] = "raised" /\ LastWork(p)[1] = "detect"

(***************************************************************************)
(* C4. For a reproducible node whose dependencies all resolved and         *)
(* reproduced without error, reproduce(force) deletes the data file and    *)
(* invokes the executor if and only if force is true, or git reports the   *)
(* source changed, or some child's reproduce returned True; otherwise it   *)
(* returns False with no deletion and no execution.                        *)
(***************************************************************************)
C4_RegeneratesIffStale ==
    \A p \in Procs :
        /\ ~RemoveRaised(p)
        /\ (pc[p] = "return" /\ state[Top(p).item].is_reproducible) =>
              LET f == Top(p)
                  stale == \/ f.force
                           \/ f.was_source_code_changed
                           \/ f.were_input_files_changed
              IN /\ (f.removed /\ f.executed) <=> stale
                 /\ f.removed <=> f.executed
                 /\ ~stale => ~ret[p]

(***************************************************************************)
(* C5. A data file whose state file says is_reproducible = False is never  *)
(* deleted and its command never executed, whatever force, git and its     *)
(* dependencies say; reproduce on it returns False.                        *)
(***************************************************************************)
C5_LeafUntouched ==
    /\ \A a \in Artifacts : ~state[a].is_reproducible => a \in exists
    /\ \A p \in Procs :
          /\ \A k \in 1..Len(log[p]) :
                LET e == log[p][k] IN
                   /\ e[1] \in {"detect", "remove", "exec"}
                         => state[e[2]].is_reproducible
                   /\ (e[1] = "return" /\ ~state[e[2]].is_reproducible)
                         => e[3] = "False"
          /\ (stack[p] # <<>> /\ ~state[Top(p).item].is_reproducible)
                => /\ pc[p] \in {"reproduce", "return"}
                   /\ pc[p] = "return" => ~ret[p]

\* Under force, a dependency that is not reproducible returned False and a
\* command was run all the same (its parent's).
C5_Witness ==
    \E p \in Procs : \E k \in 1..Len(log[p]) :
        /\ force_arg
        /\ log[p][k][1] = "return" /\ ~state[log[p][k][2]].is_reproducible
        /\ Did(p, "exec")

\* x is regenerated from y, y from z, z from nothing but its code.
IsChain(x, y, z) ==
    /\ x # y /\ y # z /\ x # z
    /\ state[x].input_files = <<y>>
    /\ state[y].input_files = <<z>>
    /\ state[z].input_files = <<>>
    /\ \A a \in {x, y, z} : state[a].is_reproducible /\ state[a].norm_argv >= 2

\* The log of p up to the first return of reproduce() on x.
UpToReturn(p, x) ==
    LET ks == {k \in 1..Len(log[p]) : log[p][k][1] = "return" /\ log[p][k][2] = x}
    IN IF ks = {} THEN <<>>
       ELSE SubSeq(log[p], 1, CHOOSE k \in ks : \A j \in ks : k <= j)

\* The entries of L made by the operations ops.
Only(L, ops) == SelectSeq(L, LAMBDA e : e[1] \in ops)

(***************************************************************************)
(* C6. On a chain x <- y <- z of reproducible files where only z's source  *)
(* is reported changed and every command succeeds, reproducing x runs the  *)
(* commands in the order z, y, x and each reproduce returns True; in       *)
(* general no command runs before the reproduce calls of all the node's    *)
(* dependencies have returned.                                             *)
(***************************************************************************)
C6_ChainOrder ==
    \A p \in Procs :
        /\ pc[p] \in {"detect", "remove", "exec"}
              => Top(p).i = Len(state[Top(p).item].input_files) + 1
        /\ \A x, y, z \in Artifacts :
              LET L == UpToReturn(p, x) IN
                 (/\ IsChain(x, y, z)
                  /\ items[p] # <<>> /\ items[p][1] = x
                  /\ L # <<>>
                  /\ <<"detect", z, "yes">> \in {L[k] : k \in 1..Len(L)}
                  /\ \A k \in 1..Len(L) : L[k][1] = "exec" => L[k][3] = "ok")
                 => /\ Only(L, {"exec"}) = << <<"exec", z, "ok">>,
                                              <<"exec", y, "ok">>,
                                              <<"exec", x, "ok">> >>
                    /\ Only(L, {"return"}) = << <<"return", z, "True">>,
                                                <<"return", y, "True">>,
                                                <<"return", x, "True">> >>
                    /\ Only(L, {"remove"}) = << <<"remove", z, "">>,
                                                <<"remove", y, "">>,
                                                <<"remove", x, "">> >>

\* The chain A <- B <- C was reproduced from a change of C alone: git said
\* no for B and for A.
C6_Witness ==
    \E p \in Procs :
        LET L == UpToReturn(p, "A") IN
           /\ IsChain("A", "B", "C")
           /\ items[p] # <<>> /\ items[p][1] = "A"
           /\ L # <<>>
           /\ {<<"detect", "C", "yes">>, <<"detect", "B", "no">>,
               <<"detect", "A", "no">>} \subseteq {L[k] : k \in 1..Len(L)}
           /\ \A k \in 1..Len(L) : L[k][1] = "exec" => L[k][3] = "ok"
           /\ changed[p]

\* repro_data_items went through every target.
AllProcessed(p) == idx[p] = Len(items[p]) + 1

\* The outcome of the commit of p, "" when there was none.
CommitResult(p) ==
    LET L == Only(log[p], {"commit"}) IN IF L = <<>> THEN "" ELSE L[1][3]

(***************************************************************************)
(* C7 as stated. A commit is triggered iff at least one target changed and *)
(* no reproduction error occurred, at most once and after the last target, *)
(* and the run then returns success; when nothing changed and no error     *)
(* occurred there is no commit and the run returns failure.                *)
(***************************************************************************)
C7_CommitMeansSuccess ==
    \A p \in Procs :
        /\ Count(p, "commit") <= 1
        /\ Did(p, "commit") => changed[p] /\ ~error[p] /\ AllProcessed(p)
        /\ (/\ Finished(p) /\ Did(p, "resolve")
            /\ Did(p, "commit") \/ result[p] # "raised") =>
              /\ Did(p, "commit") <=> (changed[p] /\ ~error[p])
              /\ Did(p, "commit") => result[p] = "0"
              /\ (~changed[p] /\ ~error[p])
                    => ~Did(p, "commit") /\ result[p] = "1"

(***************************************************************************)
(* C7 amended. commit_if_needed is called iff at least one target changed, *)
(* no ReproError occurred and no other exception escaped the loop over the *)
(* targets; it is called at most once, after the last target, and the run  *)
(* returns (or raises) what it returns (or raises).  Without a commit the  *)
(* run returns 1 unless an exception escaped.                              *)
(***************************************************************************)
C7_CommitDecidesResult ==
    \A p \in Procs :
        /\ Count(p, "commit") <= 1
        /\ Did(p, "commit") =>
              /\ changed[p] /\ ~error[p] /\ AllProcessed(p)
              /\ LastWork(p)[1] = "commit"
        /\ (Finished(p) /\ Did(p, "resolve")) =>
              /\ Did(p, "commit")
                    <=> (changed[p] /\ ~error[p] /\ AllProcessed(p))
              /\ Did(p, "commit") => result[p] = CommitResult(p)
              /\ ~Did(p, "commit") => result[p] \in {"1", "raised"}
              /\ (~Did(p, "commit") /\ result[p] = "raised")
                    => /\ ~error[p]
                       /\ LastWork(p)[1] \in {"resolve", "detect", "exec"}

\* Two targets were reproduced, the second one changed, the commit
\* returned 1 and so did the run.
C7_Witness ==
    \E p \in Procs :
        /\ Finished(p) /\ Len(items[p]) = 2
        /\ log[p][Len(log[p]) - 2][1] = "return"
        /\ log[p][Len(log[p]) - 2][3] = "True"
        /\ CommitResult(p) = "1" /\ result[p] = "1"

(***************************************************************************)
(* C8. When the command of a node fails, the failure propagates as a       *)
(* reproduction error: the reproduce of the node does not return, nothing  *)
(* more is reproduced, the run is marked errored, returns failure and      *)
(* never commits.                                                          *)
(***************************************************************************)
C8_FailurePropagates ==
    \A p \in Procs :
        \A k \in 1..Len(log[p]) :
            (log[p][k][1] = "exec" /\ log[p][k][3] # "ok") =>
                /\ \A j \in (k + 1)..Len(log[p]) : log[p][j][1] = "release"
                /\ pc[p] \in {"after_loop", "commit", "finally", "done"}
                      => error[p]
                /\ Finished(p) => result[p] = "1"

\* The targets whose ReproChange was constructed, in order.
TargetsLoaded(p) ==
    LET L == SelectSeq(log[p], LAMBDA e : e[1] = "load" /\ e[3] = "target")
    IN [k \in 1..Len(L) |-> L[k][2]]

(***************************************************************************)
(* C9. After the first target whose reproduction raises a ReproError no    *)
(* later target is constructed or reproduced, the run returns failure and  *)
(* commits nothing, also when earlier targets were regenerated.            *)
(***************************************************************************)
C9_FailFast ==
    \A p \in Procs :
        /\ Len(TargetsLoaded(p)) <= Len(items[p])
        /\ TargetsLoaded(p) = SubSeq(items[p], 1, Len(TargetsLoaded(p)))
        /\ error[p] =>
              /\ pc[p] \in {"after_loop", "finally", "done"}
              /\ idx[p] <= Len(items[p])
              /\ Len(TargetsLoaded(p)) = idx[p]
              /\ LastWork(p)[1] = "load"
              /\ ~Did(p, "commit")
              /\ pc[p] \in {"finally", "done"} => result[p] = "1"

\* The first target was regenerated, the second raised a ReproError; the
\* run ended with 1 and without a commit.
C9_Witness ==
    \E p \in Procs :
        /\ error[p] /\ changed[p] /\ Finished(p)
        /\ idx[p] = 2 /\ result[p] = "1" /\ ~Did(p, "commit")

(***************************************************************************)
(* C10. When a target resolves outside the data directory the run returns  *)
(* failure before any state file is loaded, any file deleted, any command  *)
(* executed or any commit triggered, targets inside the data directory     *)
(* included, and every offending target is reported.                       *)
(***************************************************************************)
C10_ExternalTargetsRefused ==
    \A p \in Procs :
        LET t == args[p].target IN
           (/\ \E k \in 1..Len(t) : t[k] = Outside
            /\ \A k \in 1..Len(t) : t[k] # Broken) =>
              /\ \A k \in 1..Len(log[p]) :
                    log[p][k][1] \in {"acquire", "ready", "resolve", "release"}
              /\ Did(p, "resolve") =>
                    /\ external[p] = SelectSeq(t, LAMBDA a : a = Outside)
                    /\ pc[p] \in {"finally", "done"}
                    /\ result[p] = "1"
              /\ Finished(p) => result[p] = "1"

\* A run with a target inside and a target outside the data directory has
\* ended: the outside one is reported.
C10_Witness ==
    \E p \in Procs :
        /\ Finished(p) /\ Did(p, "resolve")
        /\ Len(args[p].target) = 2 /\ Len(external[p]) = 1
        /\ \E k \in 1..2 : args[p].target[k] \in Artifacts

(***************************************************************************)
(* C11. Constructing a node for a data file whose norm_argv is absent,     *)
(* empty or one token long always raises a ReproError, for a target and    *)
(* for a dependency alike and whatever is_reproducible says: nothing is    *)
(* done for the file after its state file is loaded (no detect, remove or  *)
(* exec, and no return that would read as up to date), no later target is  *)
(* processed, nothing is committed and the run returns 1.                  *)
(***************************************************************************)
C11_MalformedStateAborts ==
    \A p \in Procs :
        \A k \in 1..Len(log[p]) :
            LET e == log[p][k] IN
               /\ e[1] \in {"detect", "remove", "exec", "return"}
                     => state[e[2]].norm_argv >= 2
               /\ (e[1] = "load" /\ state[e[2]].norm_argv < 2) =>
                     /\ \A j \in (k + 1)..Len(log[p]) : log[p][j][1] = "release"
                     /\ error[p]
                     /\ stack[p] = <<>>
                     /\ pc[p] \in {"after_loop", "finally", "done"}
                     /\ Len(TargetsLoaded(p)) = idx[p]
                     /\ Finished(p) => result[p] = "1"

\* A dependency that is malformed and not reproducible was constructed:
\* the ReproError ended the run with 1.
C11_Witness ==
    \E p \in Procs :
        /\ Finished(p) /\ error[p] /\ result[p] = "1"
        /\ LastWork(p)[1] = "load" /\ LastWork(p)[3] = "dep"
        /\ state[LastWork(p)[2]].norm_argv < 2
        /\ ~state[LastWork(p)[2]].is_reproducible

\* b is declared as an input file of a.
DependsOn(a, b) ==
    \E k \in 1..Len(state[a].input_files) : state[a].input_files[k] = b

\* b is reached from a through one to three declarations.
Reaches(a, b) ==
    \/ DependsOn(a, b)
    \/ \E c \in Artifacts :
          /\ DependsOn(a, c)
          /\ \/ DependsOn(c, b)
             \/ \E d \in Artifacts : DependsOn(c, d) /\ DependsOn(d, b)

\* The declared input files form no cycle.
Acyclic == \A a \in Artifacts : ~Reaches(a, a)

(***************************************************************************)
(* C12. Idempotence: on an acyclic graph, when reproduce() (force False)   *)
(* is called on a node and then again on the same node with nothing        *)
(* happening in between, the second call runs no command in the node's     *)
(* subgraph, deletes no data file and returns False.  The two calls are    *)
(* those of a run whose targets are twice the same data file.              *)
(***************************************************************************)
C12_SecondCallDoesNothing ==
    \A p \in Procs :
        \A a \in Artifacts :
            LET n == Len(UpToReturn(p, a)) IN
               (Acyclic /\ items[p] = <<a, a>> /\ n > 0) =>
                  /\ \A j \in (n + 1)..Len(log[p]) :
                        /\ log[p][j][1] \notin {"remove", "exec"}
                        /\ log[p][j][1] = "return" => log[p][j][3] = "False"
                  /\ ~RemoveRaised(p)

\* The last position before k at which the state file of a was loaded
\* (0 when there is none): where the reproduce() call that is active or
\* returning at k was constructed.
LoadOf(p, a, k) ==
    LET ls == {s \in 1..(k - 1) : log[p][s][1] = "load" /\ log[p][s][2] = a}
    IN IF ls = {} THEN 0 ELSE CHOOSE s \in ls : \A j \in ls : j <= s

\* The positions strictly between s and k at which git was asked about a.
Detects(p, a, s, k) ==
    {j \in (s + 1)..(k - 1) : log[p][j][1] = "detect" /\ log[p][j][2] = a}

\* Within a call of reproduce() on a that returns at k, the question to git
\* comes after everything done for the dependencies and before os.remove
\* and run_command on a.
DetectInPlace(p, a, k) ==
    LET s == LoadOf(p, a, k) IN
       \A d \in Detects(p, a, s, k) :
          /\ \A j \in (s + 1)..(d - 1) : log[p][j][2] # a
          /\ \A j \in (d + 1)..(k - 1) :
                log[p][j][1] \in {"remove", "exec"} /\ log[p][j][2] = a

(***************************************************************************)
(* C13 as stated. For every node and every call of reproduce() on it, git  *)
(* is asked exactly once whether the data file or its code changed, after  *)
(* the reproduce() of all the dependencies returned and before the data    *)
(* file is deleted or its command run.                                     *)
(***************************************************************************)
C13_DetectExactlyOnce ==
    \A p \in Procs :
        \A k \in 1..Len(log[p]) :
            LET a == log[p][k][2] IN
               log[p][k][1] = "return" =>
                  /\ Cardinality(Detects(p, a, LoadOf(p, a, k), k)) = 1
                  /\ DetectInPlace(p, a, k)

(***************************************************************************)
(* C13 amended. A call of reproduce() on a reproducible node that gets     *)
(* past its dependencies asks git exactly once, after the reproduce() of   *)
(* all the dependencies returned and before the data file is deleted or    *)
(* its command run; a call on a node that is not reproducible never asks;  *)
(* no call asks before its dependencies are through, or twice.             *)
(***************************************************************************)
C13_DetectOncePastDependencies ==
    \A p \in Procs :
        /\ \A k \in 1..Len(log[p]) :
              LET a == log[p][k][2] IN
                 log[p][k][1] = "return" =>
                    /\ Cardinality(Detects(p, a, LoadOf(p, a, k), k))
                          = IF state[a].is_reproducible THEN 1 ELSE 0
                    /\ DetectInPlace(p, a, k)
        /\ \A j \in 1..Len(stack[p]) :
              LET f == stack[p][j]
                  n == Cardinality(Detects(p, f.item,
                          LoadOf(p, f.item, Len(log[p]) + 1), Len(log[p]) + 1))
              IN IF j < Len(stack[p]) \/ pc[p] \in {"reproduce", "children"}
                 THEN n = 0
                 ELSE /\ pc[p] = "detect" =>
                           /\ n = 0 /\ ~f.removed /\ ~f.executed
                           /\ f.i = Len(state[f.item].input_files) + 1
                      /\ pc[p] \in {"remove", "exec"} => n = 1

\* A node with two dependencies is returning after its command was run:
\* git was asked once, between the return of the second dependency and
\* the removal.
C13_Witness ==
    \E p \in Procs :
        /\ pc[p] = "return" /\ Top(p).executed
        /\ Len(state[Top(p).item].input_files) = 2
        /\ Cardinality(Detects(p, Top(p).item,
              LoadOf(p, Top(p).item, Len(log[p]) + 1), Len(log[p]) + 1)) = 1

\* What p logged since the node of the innermost active reproduce() call,
\* on data file a, was constructed.
SinceLoad(p, a) ==
    SubSeq(log[p], LoadOf(p, a, Len(log[p]) + 1) + 1, Len(log[p]))

\* The number of reproduce() calls that are open just before position k
\* of S: the nodes constructed less the calls returned.
Open(S, k) ==
    Cardinality({j \in 1..(k - 1) : S[j][1] = "load"})
       - Cardinality({j \in 1..(k - 1) : S[j][1] = "return"})

\* The positions of S at which a direct child was constructed, and those
\* at which the reproduce() of a direct child returned.
ChildLoads(S) == {k \in 1..Len(S) : S[k][1] = "load" /\ Open(S, k) = 0}
ChildReturns(S) == {k \in 1..Len(S) : S[k][1] = "return" /\ Open(S, k) = 1}

\* The paths logged at the positions I of S, in order.
PathsAt(S, I) ==
    [n \in 1..Cardinality(I) |->
        S[CHOOSE k \in I : Cardinality({j \in I : j < k}) = n - 1][2]]

(***************************************************************************)
(* C14. Within one reproduce(force), when no dependency raises, a node is  *)
(* constructed and reproduce(force) called for every input file, one at a  *)
(* time in declared order and with the same force; the active calls form   *)
(* one path, so a child's subtree is finished before the next child is     *)
(* constructed; a child that returned True does not end the loop, and      *)
(* were_input_files_changed is True exactly when some child returned True. *)
(***************************************************************************)
C14_ChildrenInOrder ==
    \A p \in Procs :
        stack[p] # <<>> =>
           /\ stack[p][1].item = items[p][idx[p]]
           /\ stack[p][1].force = force_arg
           /\ \A j \in 2..Len(stack[p]) :
                 LET parent == stack[p][j - 1] IN
                    /\ parent.i <= Len(state[parent.item].input_files)
                    /\ stack[p][j].item = state[parent.item].input_files[parent.i]
                    /\ stack[p][j].force = parent.force
           /\ LET f == Top(p)
                  deps == state[f.item].input_files
                  S == SinceLoad(p, f.item)
              IN (state[f.item].is_reproducible /\ pc[p] # "reproduce") =>
                    /\ f.i <= Len(deps) + 1
                    /\ PathsAt(S, ChildLoads(S)) = SubSeq(deps, 1, f.i - 1)
                    /\ PathsAt(S, ChildReturns(S)) = SubSeq(deps, 1, f.i - 1)
                    /\ \A k \in ChildLoads(S) : S[k][3] = "dep"
                    /\ f.were_input_files_changed
                          <=> \E k \in ChildReturns(S) : S[k][3] = "True"
                    /\ pc[p] \in {"detect", "remove", "exec", "return"}
                          => f.i = Len(deps) + 1

\* A forced node with two dependencies is about to ask git: the first
\* dependency returned True, the second was reproduced all the same and
\* returned False.
C14_Witness ==
    \E p \in Procs :
        LET S == SinceLoad(p, Top(p).item) IN
           /\ pc[p] = "detect" /\ Top(p).force
           /\ Cardinality(ChildReturns(S)) = 2
           /\ Top(p).were_input_files_changed
           /\ ~ret[p]

\* Data file a is reproducible with a well-formed command, and one of its
\* input files does not resolve to a data item.
HasUnresolvableInput(a) ==
    /\ state[a].is_reproducible /\ state[a].norm_argv >= 2
    /\ \E k \in 1..Len(state[a].input_files) :
          state[a].input_files[k] \notin Artifacts

(***************************************************************************)
(* C15. When an input file of a reproducible node N does not resolve (it   *)
(* is outside the data directory, or its resolution fails otherwise),      *)
(* reproduce() on N raises a ReproError: once N is constructed nothing     *)
(* more is loaded, asked, deleted, executed or returned in the run, so     *)
(* neither N nor an ancestor is regenerated and no dependency of N is      *)
(* reproduced, those declared before the unresolvable one included; the    *)
(* error breaks the driver's loop at the current target, and the run       *)
(* returns 1 without a commit.                                             *)
(***************************************************************************)
C15_UnresolvableInputAborts ==
    \A p \in Procs :
        \A k \in 1..Len(log[p]) :
            (log[p][k][1] = "load" /\ HasUnresolvableInput(log[p][k][2])) =>
                /\ \A j \in (k + 1)..Len(log[p]) : log[p][j][1] = "release"
                /\ Len(TargetsLoaded(p)) = idx[p]
                /\ pc[p] \in {"reproduce", "after_loop", "finally", "done"}
                /\ pc[p] = "reproduce" => Top(p).item = log[p][k][2]
                /\ pc[p] # "reproduce" => error[p] /\ stack[p] = <<>>
                /\ Finished(p) => result[p] = "1"

\* A run ended on a target whose second input file is outside the data
\* directory: its first input file was never loaded.
C15_Witness ==
    \E p \in Procs :
        LET a == LastWork(p)[2] IN
           /\ Finished(p) /\ error[p] /\ result[p] = "1"
           /\ LastWork(p)[1] = "load"
           /\ HasUnresolvableInput(a)
           /\ state[a].input_files[1] \in Artifacts
           /\ state[a].input_files[2] = Outside

(***************************************************************************)
(* C16. In every run in which a ReproError interrupts the processing of    *)
(* the targets, the warning about uncommitted changes is emitted before    *)
(* the run returns 1, also when the run was started with the flag that     *)
(* skips the readiness check (skip_git_actions).                           *)
(***************************************************************************)
C16_WarnedOnError ==
    \A p \in Procs :
        (error[p] /\ pc[p] \in {"finally", "done"})
            => warned[p] /\ result[p] = "1"

(***************************************************************************)
(* C17. Without the skip flag, when git.is_ready_to_go() says no the run   *)
(* returns 1 having done nothing but acquire the lock and ask: no target   *)
(* resolved, no state file loaded, no command run, no commit; and it       *)
(* releases the lock.  With the skip flag the readiness is never asked     *)
(* and the run goes on to resolve its targets.                             *)
(***************************************************************************)
C17_NotReadyRefused ==
    \A p \in Procs :
        /\ Count(p, "ready") <= 1
        /\ <<"ready", "", "no">> \in {log[p][k] : k \in 1..Len(log[p])} =>
              /\ ~args[p].skip_git_actions
              /\ \A k \in 1..Len(log[p]) :
                    log[p][k][1] \in {"acquire", "ready", "release"}
              /\ pc[p] \in {"finally", "done"}
              /\ result[p] = "1"
              /\ items[p] = <<>> /\ stack[p] = <<>> /\ code[p] = {}
              /\ pc[p] = "finally" => lock = p
              /\ Finished(p) => lock # p /\ Count(p, "release") = 1
        /\ args[p].skip_git_actions =>
              /\ ~Did(p, "ready")
              /\ (Did(p, "acquire") /\ pc[p] \notin {"check", "resolve"})
                    => Did(p, "resolve")
        /\ (~args[p].skip_git_actions /\ Did(p, "resolve"))
              => log[p][2] = <<"ready", "", "yes">>

\* A run with a target and without the skip flag has ended on a repository
\* that is not ready, and the lock is free again.
C17_Witness ==
    \E p \in Procs :
        /\ Finished(p) /\ lock = NoProc
        /\ args[p].target # <<>> /\ ~args[p].skip_git_actions
        /\ log[p] = << <<"acquire", "", "">>, <<"ready", "", "no">>,
                       <<"release", "", "">> >>
        /\ result[p] = "1"

\* reproduce() on a constructs a node for b and calls its reproduce().
RecursesInto(a, b) ==
    /\ state[a].is_reproducible /\ state[a].norm_argv >= 2
    /\ \A k \in 1..Len(state[a].input_files) :
          state[a].input_files[k] \in Artifacts
    /\ DependsOn(a, b)
    /\ state[b].norm_argv >= 2

\* a is on a cycle of reproducible, well-formed nodes.
OnCycle(a) ==
    \/ RecursesInto(a, a)
    \/ \E b \in Artifacts :
          /\ RecursesInto(a, b)
          /\ \/ RecursesInto(b, a)
             \/ \E c \in Artifacts : RecursesInto(b, c) /\ RecursesInto(c, a)

\* No reproduce() call on a node of a cycle has returned, and the driver
\* got past no target that is on a cycle.
NoReturnOnCycle ==
    \A p \in Procs :
        /\ \A k \in 1..Len(log[p]) :
              log[p][k][1] = "return" => ~OnCycle(log[p][k][2])
        /\ \A k \in 1..Len(items[p]) : OnCycle(items[p][k]) => idx[p] <= k
        /\ (stack[p] # <<>> /\ OnCycle(stack[p][1].item)) =>
              /\ pc[p] \in {"reproduce", "children"}
              /\ \A j \in 1..Len(stack[p]) : OnCycle(stack[p][j].item)

(***************************************************************************)
(* C18. On an acyclic graph, whatever the targets, a run that holds the    *)
(* lock finishes in the end and the lock is released (run_command and      *)
(* commit_if_needed are taken to return).  When a target is on a cycle of  *)
(* reproducible, well-formed nodes, reproduce() on it never returns: each  *)
(* call constructs the next node of the cycle and calls its reproduce(),   *)
(* no call notices that its data file is being reproduced already.         *)
(***************************************************************************)
C18_TerminatesUnlessCyclic ==
    /\ \A p \in Procs : (Acyclic /\ lock = p) ~> (Finished(p) /\ lock # p)
    /\ []NoReturnOnCycle

\* The recursion went round the cycle: a data file whose reproduce() is
\* active is being reproduced again below itself.
C18_Witness ==
    \E p \in Procs :
        /\ Len(stack[p]) >= 4
        /\ stack[p][3].item = stack[p][1].item
        /\ stack[p][4].item = stack[p][2].item
        /\ pc[p] = "children"

\* The data files whose node p has constructed so far.
Constructed(p) == {log[p][k][2] : k \in Ops(p, "load")}

(***************************************************************************)
(* C19. cmd_obj._code accumulates over the recursion: after any sequence   *)
(* of node constructions in a run it holds the code dependencies of every  *)
(* node constructed so far in that run.                                    *)
(***************************************************************************)
C19_CodeAccumulates ==
    \A p \in Procs :
        \A a \in Constructed(p) : state[a].code_dependencies \subseteq code[p]

\* The number of reproduce() calls on d that one reproduce() call on a
\* makes, itself included: one per dependency path from a to d through
\* reproducible nodes.  n bounds the length of the paths followed.
RECURSIVE Visits(_, _, _)
RECURSIVE VisitsBelow(_, _, _)
Visits(a, d, n) ==
    IF n = 0 THEN 0
    ELSE (IF a = d THEN 1 ELSE 0)
         + (IF state[a].is_reproducible
            THEN VisitsBelow(state[a].input_files, d, n - 1) ELSE 0)

VisitsBelow(deps, d, n) ==
    IF deps = <<>> THEN 0
    ELSE Visits(Head(deps), d, n) + VisitsBelow(Tail(deps), d, n)

\* The number of dependency paths from target t to d.
PathsTo(t, d) == Visits(t, d, Cardinality(Artifacts))

\* How many times operation op on data file d is in L.
Times(L, op, d) ==
    Cardinality({k \in 1..Len(L) : L[k][1] = op /\ L[k][2] = d})

(***************************************************************************)
(* C20. Nodes are not memoized within a run: when data file d is reached   *)
(* from a target along k dependency paths of reproducible nodes and no     *)
(* error occurs, a node for d is constructed and its reproduce() called    *)
(* exactly k times; if git says every time that d changed, d is deleted    *)
(* and its command run k times in that one run.                            *)
(***************************************************************************)
C20_NoMemoization ==
    \A p \in Procs :
        (Acyclic /\ items[p] # <<>> /\ Did(p, "return")) =>
           LET t == items[p][1]
               L == UpToReturn(p, t)
           IN L # <<>> =>
                 \A d \in Artifacts :
                    LET k == PathsTo(t, d) IN
                       /\ Times(L, "load", d) = k
                       /\ Times(L, "return", d) = k
                       /\ state[d].is_reproducible
                             => Times(L, "detect", d) = k
                       /\ (/\ state[d].is_reproducible
                           /\ \A j \in 1..Len(L) :
                                 (L[j][1] = "detect" /\ L[j][2] = d)
                                    => L[j][3] = "yes")
                             => /\ Times(L, "remove", d) = k
                                /\ Times(L, "exec", d) = k

\* A was reproduced in the diamond: C, reached through B and directly,
\* was deleted and its command run twice.
C20_Witness ==
    \E p \in Procs :
        LET L == UpToReturn(p, "A") IN
           /\ items[p] # <<>> /\ items[p][1] = "A" /\ L # <<>>
           /\ PathsTo("A", "C") = 2
           /\ Times(L, "remove", "C") = 2
           /\ Times(L, "exec", "C") = 2

====
